---------------------------- MODULE Spec2Model ----------------------------
(***************************************************************************)
(* Claim-processing pipeline of the Healthcare Claims Intelligence System: *)
(* the upload trigger (pdf-extractor), the claim orchestrator, the         *)
(* medical-extraction stage (openai-medical-extractor) with its fallback   *)
(* chain, and the risk-scoring stage (risk-scorer), all acting on one      *)
(* claim record of the results table.  Keys of different claims are        *)
(* disjoint and no handler touches another key, so one key is modelled.    *)
(***************************************************************************)
EXTENDS Integers, Sequences, FiniteSets, TLC

(* ----------------------------- bounds --------------------------------- *)
\* orchestrator invocations in one behaviour, concurrent or one after another
NumOrch == 2
\* deliveries of the upload notification in one behaviour
MaxUploads == 2

Orchs == 1..NumOrch
\* the caller after the orchestrators is a direct invoker of the
\* medical-extraction function (an event carrying analysis_tier)
Direct == NumOrch + 1
Callers == Orchs \cup {Direct}

(* ------------------------ values of the record ------------------------ *)
ABSENT == "absent"

Statuses == <<"UPLOADED", "TEXT_EXTRACTED", "MEDICAL_ANALYSIS_COMPLETE", "SCORING_COMPLETE">>

\* position of a status in the pipeline order (0 for an absent status)
Rank(s) ==
    IF \E i \in 1..Len(Statuses) : Statuses[i] = s
    THEN CHOOSE i \in 1..Len(Statuses) : Statuses[i] = s
    ELSE 0

\* the eight keys of the canonical medical-entity shape
CanonicalKeys ==
    {"patient", "diagnosis_codes", "procedure_codes", "medications",
     "conditions", "provider", "claim_amount", "extraction_method"}

\* a medical_entities value: the strategy that produced it (origin), the tag
\* stored in it, the keys it carries, and the key-value pairs copied into it
NoData == [origin |-> "none", extraction_method |-> ABSENT, keys |-> {}, copied |-> "none"]

NoRisk == [basis |-> NoData, timestamp |-> ABSENT]

\* the item of the results table under the claim's key; of a timestamp
\* attribute only the presence is kept ("set" once written); the boolean
\* attribute processing_complete is "true", "false" or absent
NoItem ==
    [exists |-> FALSE, status |-> ABSENT, extracted_text |-> ABSENT,
     key_value_pairs |-> ABSENT, medical_entities |-> NoData,
     risk_analysis |-> NoRisk, final_score |-> ABSENT, analysis_tier |-> ABSENT,
     processing_complete |-> ABSENT, created_at |-> ABSENT,
     updated_at |-> ABSENT, completed_at |-> ABSENT]

VARIABLES
    rec,              \* the claim's item in the results table
    orch,             \* per orchestrator invocation: position and locals
    med,              \* per caller: the running medical-extraction invocation
    CACHED_API_KEY,   \* the medical extractor's warm container: key cached?
    GPU_SERVICE_URL,  \* deployment setting: deep-model endpoint configured?
    gpu_service,      \* what answers at that endpoint
    scorer_module,    \* outcome of the risk scorer's module initialisation
    pdf_extractor,    \* which of the two pdf-extractor handlers is deployed
    uploads,          \* deliveries of the upload notification so far
    scoring           \* risk scorer on its own: a claim and its scoring results

\* the settings of a deployment, which no handler changes
deployment == <<GPU_SERVICE_URL, gpu_service, scorer_module, pdf_extractor>>

vars == <<rec, orch, med, CACHED_API_KEY, GPU_SERVICE_URL, gpu_service, scorer_module,
          pdf_extractor, uploads, scoring>>


(* ------------------- store operations (DynamoDB) ---------------------- *)
\* put_item: the item is replaced as a whole by the attributes given
put_item(item) == item

\* update_item writing the item as a whole: the attributes not named are
\* dropped
update_item_full_overwrite(item, changes) ==
    [f \in DOMAIN item |->
        IF f \in DOMAIN changes THEN changes[f]
        ELSE IF f = "exists" THEN TRUE
        ELSE NoItem[f]]

\* update_item with a SET expression: the named attributes are merged into
\* the item under the key; an item that does not exist is created
update_item(item, changes) ==
    [f \in DOMAIN item |->
        IF f \in DOMAIN changes THEN changes[f]
        ELSE IF f = "exists" THEN TRUE
        ELSE item[f]]

(* --------------- medical extraction: the three strategies ------------- *)
\* what the deep-model endpoint can answer to POST /analyze
GpuOutcomes == {"ok", "timeout", "http_error", "malformed"}
\* what the secret store can answer to get_secret_value
SecretOutcomes == {"ok", "error"}
\* what the chat-completion call can yield: the content of the reply, or a
\* failure of the call itself
LlmOutcomes ==
    {"canonical_json",   \* a JSON object with the seven requested keys
     "partial_object",   \* a JSON object lacking some of the requested keys
     "non_object",       \* JSON, but an array or a scalar
     "not_json",         \* text that json.loads rejects
     "fenced_json",      \* canonical JSON wrapped in a ```json fence
     "fenced_plain",     \* canonical JSON wrapped in a plain ``` fence
     "api_error"}        \* the call raised (network, status, timeout, import)

None == [ok |-> FALSE, data |-> NoData]

\* extract_with_rules: regular expressions over the text; patient, provider
\* and amount are copied from key_value_pairs when that mapping is non-empty
extract_with_rules(text, key_value_pairs) ==
    [origin |-> "rules",
     extraction_method |-> "rule_based",
     keys |-> CanonicalKeys,
     copied |-> IF key_value_pairs \in {ABSENT, "empty"} THEN "none" ELSE key_value_pairs]

\* extract_with_gpu_service: any exception (timeout, raise_for_status, a key
\* missing from the reply) is caught and None is returned
extract_with_gpu_service(gpu) ==
    IF gpu = "ok"
    THEN [ok |-> TRUE,
          data |-> [origin |-> "gpu", extraction_method |-> "gpu_enhanced",
                    keys |-> CanonicalKeys \cup {"gpu_used", "model_name", "detailed_analysis",
                                                 "confidence_scores", "recommendations",
                                                 "processing_time"},
                    copied |-> "none"]]
    ELSE None

\* keys of the object the language model replied with, per kind of reply
LlmKeys(llm) ==
    IF llm = "canonical_json" THEN CanonicalKeys \ {"extraction_method"}
    ELSE {"patient"}

\* lines 201-209: strip, remove a code fence, json.loads.  Line 205 calls
\* .split on the list that .split returned (AttributeError); line 207 takes
\* element 7 of the pieces around the fences (IndexError for one fenced block)
LlmParses(llm) == llm \in {"canonical_json", "partial_object", "non_object"}

\* extract_with_openai with the tagging moved behind the try block, so that
\* the result of the fallback to the rules is tagged 'openai' as well
extract_with_openai_tagging_fallback(text, llm) ==
    IF LlmParses(llm) /\ llm # "non_object"
    THEN [origin |-> "llm", extraction_method |-> "openai",
          keys |-> LlmKeys(llm) \cup {"extraction_method", "cost"},
          copied |-> "none"]
    ELSE [extract_with_rules(text, "empty") EXCEPT !.extraction_method = "openai"]

\* extract_with_openai: the reply is parsed and tagged; any exception on the
\* way (the call, the fence removal, json.loads, item assignment on a value
\* that is no dict) falls back to extract_with_rules(text, {})
extract_with_openai(text, llm) ==
    IF LlmParses(llm) /\ llm # "non_object"
    THEN [origin |-> "llm", extraction_method |-> "openai",
          keys |-> LlmKeys(llm) \cup {"extraction_method", "cost"},
          copied |-> "none"]
    ELSE extract_with_rules(text, "empty")

\* get_openai_key without the test of the cache: the secret store is
\* called in every invocation and its answer replaces what was cached
get_openai_key_always_fetching(cached, secret) ==
    IF secret = "ok" THEN [key |-> TRUE, cached |-> TRUE, calls |-> <<"secretsmanager">>]
    ELSE [key |-> FALSE, cached |-> FALSE, calls |-> <<"secretsmanager">>]

\* get_openai_key: the cached key if there is one, else one call to the
\* secret store, whose value is cached only when the call succeeded
get_openai_key(cached, secret) ==
    IF cached THEN [key |-> TRUE, cached |-> TRUE, calls |-> <<>>]
    ELSE IF secret = "ok" THEN [key |-> TRUE, cached |-> TRUE, calls |-> <<"secretsmanager">>]
    ELSE [key |-> FALSE, cached |-> FALSE, calls |-> <<"secretsmanager">>]

\* the external calls extract_with_openai makes or falls back to, in order
OpenaiCalls(llm) ==
    IF LlmParses(llm) /\ llm # "non_object" THEN <<"openai">> ELSE <<"openai", "rules">>

\* openai-medical-extractor lambda_handler, lines 108-126: the deep-model
\* service for tier pro when its URL is set; if that gave nothing, the
\* language model when a key is available, the rules otherwise.  The result
\* holds the data to store, the calls made in order, and the key cache.
RunExtraction(tier, text, key_value_pairs, cached, gpu, secret, llm) ==
    LET useGpu == tier = "pro" /\ GPU_SERVICE_URL
        g == IF useGpu THEN extract_with_gpu_service(gpu) ELSE None
        k == get_openai_key(cached, secret)
    IN  IF g.ok
        THEN [data |-> g.data, calls |-> <<"gpu">>, cached |-> cached]
        ELSE [data |-> IF k.key THEN extract_with_openai(text, llm)
                       ELSE extract_with_rules(text, key_value_pairs),
              calls |-> (IF useGpu THEN <<"gpu">> ELSE <<>>) \o k.calls
                        \o (IF k.key THEN OpenaiCalls(llm) ELSE <<"rules">>),
              cached |-> k.cached]

(* ------------------------------ Init ---------------------------------- *)
\* an orchestrator invocation: its position, whether a claim_id was resolved
\* from its event ("resolved", "none"), the locals medical_result and
\* risk_result (the statusCode of each stage's response) and, once it has
\* returned, its response: statusCode and, in the body of a 200 response,
\* medical_extraction and risk_scoring (lines 88-96).  The locals end with
\* the invocation.
NoResponse == [statusCode |-> "unset", medical_extraction |-> ABSENT, risk_scoring |-> ABSENT]

IdleOrch ==
    [pc |-> "idle", claim_id |-> "unset", medical_result |-> "unset",
     risk_result |-> "unset", response |-> NoResponse]

\* the invocation o returning an error response (lines 28, 37, 98-106)
ReturnError(o, code) ==
    [orch EXCEPT ![o] = [IdleOrch EXCEPT !.pc = "done",
                                         !.claim_id = orch[o].claim_id,
                                         !.response.statusCode = code]]

\* the invocation o returning its 200 response (lines 88-96)
ReturnComplete(o) ==
    [orch EXCEPT ![o] = [IdleOrch EXCEPT !.pc = "done",
        !.claim_id = orch[o].claim_id,
        !.response = [statusCode |-> "200",
                      medical_extraction |-> (orch[o].medical_result = "200"),
                      risk_scoring |-> (orch[o].risk_result = "200")]]]

NoEvent == [analysis_tier |-> ABSENT, extracted_text |-> ABSENT, key_value_pairs |-> ABSENT]

IdleMed == [phase |-> "idle", event |-> NoEvent]

\* risk-scorer module initialisation, lines 1-7: json, boto3, datetime and
\* Decimal are imported, os is not, and line 7 evaluates os.environ, which
\* raises NameError when the module is loaded.  "loaded" stands for a load
\* in which the name os resolves, so that the handler body (lines 9-238) is
\* covered too; each behaviour keeps one of the two outcomes throughout.
ScorerModuleOutcomes == {"NameError", "loaded"}

\* the risk scorer taken on its own: no claim given, nothing scored
NoScoring == [claim |-> "none", results |-> <<>>, statusCode |-> "none"]

\* the repository holds two handlers for the upload notification:
\* pdf-extractor/lambda_function.py and the copy bundled under
\* pdf-extractor/package/; a deployment runs one of them
PdfExtractors == {"lambda_function", "package"}

Init ==
    /\ rec = NoItem
    /\ orch = [o \in Orchs |-> IdleOrch]
    /\ med = [c \in Callers |-> IdleMed]
    /\ CACHED_API_KEY = FALSE
    /\ GPU_SERVICE_URL \in BOOLEAN
    /\ gpu_service = "any"
    /\ scorer_module \in ScorerModuleOutcomes
    /\ pdf_extractor \in PdfExtractors
    /\ uploads = 0
    /\ scoring = NoScoring

(* --------------------------- upload trigger --------------------------- *)
\* the orchestrator slots as they are after an asynchronous invocation of
\* the orchestrator (InvocationType Event) was accepted: the first slot that
\* has run nothing holds the queued event
Enqueue(ok) ==
    IF ok
    THEN LET o == CHOOSE p \in Orchs :
                     orch[p].pc = "idle" /\ \A q \in Orchs : q < p => orch[q].pc # "idle"
         IN  [orch EXCEPT ![o].pc = "queued"]
    ELSE orch

\* pdf-extractor lambda_handler: head_object, put_item of a fresh item with
\* status UPLOADED, then an asynchronous invocation of the orchestrator.  A
\* failing call raises into the handler's except: nothing further is done
\* (a delivery whose head_object or put_item fails changes nothing at all
\* and is left out).
UploadTrigger ==
    /\ pdf_extractor = "lambda_function"
    /\ uploads < MaxUploads
    /\ uploads' = uploads + 1
    /\ \E invokeOk \in BOOLEAN :
        /\ invokeOk => \E p \in Orchs : orch[p].pc = "idle"
        /\ rec' = put_item([NoItem EXCEPT !.exists = TRUE, !.status = "UPLOADED",
                                          !.processing_complete = "false",
                                          !.created_at = "set"])
        /\ orch' = Enqueue(invokeOk)
    /\ UNCHANGED <<med, CACHED_API_KEY, deployment, scoring>>

\* pdf-extractor/package lambda_handler: get_object, text and key-value
\* extraction, put_item of a fresh item with status TEXT_EXTRACTED (no
\* processing_complete attribute), then the asynchronous invocation
UploadTriggerPackage ==
    /\ pdf_extractor = "package"
    /\ uploads < MaxUploads
    /\ uploads' = uploads + 1
    /\ \E invokeOk \in BOOLEAN :
        /\ invokeOk => \E p \in Orchs : orch[p].pc = "idle"
        /\ rec' = put_item([NoItem EXCEPT !.exists = TRUE, !.status = "TEXT_EXTRACTED",
                                          !.extracted_text = "text",
                                          !.key_value_pairs = "kv",
                                          !.created_at = "set"])
        /\ orch' = Enqueue(invokeOk)
    /\ UNCHANGED <<med, CACHED_API_KEY, deployment, scoring>>

(* ---------------------- medical-extraction stage ---------------------- *)
\* openai-medical-extractor lambda_handler, lines 99-106: an invocation by
\* caller c starts and reads its event
MedicalBegin(c, event) ==
    med' = [med EXCEPT ![c] = [phase |-> "running", event |-> event]]

\* event.get(name, default): the default for a field the event lacks
GetOr(value, default) == IF value = ABSENT THEN default ELSE value

\* what can answer at GPU_SERVICE_URL: any HTTP endpoint, or the deep-model
\* service of this repository (gpu-service/app.py), healthy and in time
GpuServices == {"any", "gpu-service"}

\* the JSON body that extract_with_gpu_service posts to /analyze, lines
\* 59-63, as the set of its keys
gpu_request == {"claim_id", "text", "analysis_tier"}

\* gpu-service/app.py analyze_document, lines 150-201, with the model
\* loaded: 400 for a body that is empty or has no document_text, else the
\* analysis and the 200 response; of a response the status and the keys
analyze_document(json) ==
    IF json = {} THEN [status |-> "400", keys |-> {"error"}]
    ELSE IF "document_text" \notin json THEN [status |-> "400", keys |-> {"error"}]
    ELSE [status |-> "200",
          keys |-> {"status", "model", "service_tier", "analysis", "insights",
                    "processing_time_seconds", "timestamp"}]

\* the keys of the reply that extract_with_gpu_service reads, lines 74-86
GpuReplyKeys == {"detailed_analysis", "gpu_used", "model_name"}

\* what extract_with_gpu_service gets from the repository's service:
\* raise_for_status raises for a 4xx or 5xx status (line 67), a key missing
\* from the reply raises KeyError (lines 74-86)
RepositoryGpuOutcome ==
    LET response == analyze_document(gpu_request)
    IN  IF response.status # "200" THEN "http_error"
        ELSE IF GpuReplyKeys \subseteq response.keys THEN "ok"
        ELSE "malformed"

\* the answer of a service that is not called in an invocation is fixed, so
\* that every combination enumerated is one the invocation observes; the
\* repository's deep-model service answers as its code does
Consulted(tier, cached, gpu, secret, llm) ==
    LET useGpu == tier = "pro" /\ GPU_SERVICE_URL
        gpuOk == useGpu /\ gpu = "ok"
        key == ~gpuOk /\ (cached \/ secret = "ok")
    IN  /\ ~useGpu => gpu = "timeout"
        /\ (useGpu /\ gpu_service = "gpu-service") => gpu = RepositoryGpuOutcome
        /\ (gpuOk \/ cached) => secret = "error"
        /\ ~key => llm = "api_error"

\* the extraction of a running invocation c under the given answers, in a
\* container whose key cache is as given
Extraction(c, cached, gpu, secret, llm) ==
    RunExtraction(GetOr(med[c].event.analysis_tier, "standard"),
                  GetOr(med[c].event.extracted_text, ""),
                  GetOr(med[c].event.key_value_pairs, "empty"),
                  cached, gpu, secret, llm)

\* the attributes the medical stage sets, lines 133-143
MedicalWrite(data, tier) ==
    [medical_entities |-> data, status |-> "MEDICAL_ANALYSIS_COMPLETE",
     updated_at |-> "set", analysis_tier |-> tier]

\* the handler with an exception raised after the update_item instead of by
\* it: the data is written and the invocation answers 500
MedicalReturn_raise_after_write(c) ==
    /\ med[c].phase = "running"
    /\ \E gpu \in GpuOutcomes, secret \in SecretOutcomes, llm \in LlmOutcomes,
          laterOk \in BOOLEAN, warm \in BOOLEAN :
        LET cached == warm /\ CACHED_API_KEY
            tier == GetOr(med[c].event.analysis_tier, "standard")
            r == Extraction(c, cached, gpu, secret, llm)
            response == IF laterOk THEN "200" ELSE "500"
        IN  /\ Consulted(tier, cached, gpu, secret, llm)
            /\ CACHED_API_KEY' = IF warm THEN r.cached ELSE CACHED_API_KEY
            /\ rec' = update_item(rec, MedicalWrite(r.data, tier))
            /\ med' = [med EXCEPT ![c] = [IdleMed EXCEPT !.phase = "returned"]]
            /\ orch' = IF c \in Orchs
                       THEN [orch EXCEPT ![c].medical_result = response,
                                         ![c].pc = "call_risk"]
                       ELSE orch
    /\ UNCHANGED <<deployment, uploads, scoring>>

\* openai-medical-extractor lambda_handler, lines 108-166: the fallback
\* chain with the answers the services give during the invocation, then the
\* update_item and the 200 response, or the 500 response when the update
\* raised; the response reaches the orchestrator that invoked the stage
\* (claim-orchestrator lines 55-59) or the direct caller.  The invocation is
\* served by the warm container, whose module-level CACHED_API_KEY outlives
\* it, or by a fresh one (cold start), whose cache starts empty.
MedicalReturn(c) ==
    /\ med[c].phase = "running"
    /\ \E gpu \in GpuOutcomes, secret \in SecretOutcomes, llm \in LlmOutcomes,
          storeOk \in BOOLEAN, warm \in BOOLEAN :
        LET cached == warm /\ CACHED_API_KEY
            tier == GetOr(med[c].event.analysis_tier, "standard")
            r == Extraction(c, cached, gpu, secret, llm)
            response == IF storeOk THEN "200" ELSE "500"
        IN  /\ Consulted(tier, cached, gpu, secret, llm)
            /\ CACHED_API_KEY' = IF warm THEN r.cached ELSE CACHED_API_KEY
            /\ IF storeOk
               THEN rec' = update_item(rec, MedicalWrite(r.data, tier))
               ELSE UNCHANGED rec
            /\ med' = [med EXCEPT ![c] = [IdleMed EXCEPT !.phase = "returned"]]
            /\ orch' = IF c \in Orchs
                       THEN [orch EXCEPT ![c].medical_result = response,
                                         ![c].pc = "call_risk"]
                       ELSE orch
    /\ UNCHANGED <<deployment, uploads, scoring>>

\* an invocation of the medical-extraction function by a caller other than
\* the orchestrator, whose event may carry analysis_tier (line 103)
DirectMedical ==
    /\ med[Direct].phase = "idle"
    /\ \E tier \in {"standard", "pro"} :
        MedicalBegin(Direct, [analysis_tier |-> tier, extracted_text |-> "text",
                              key_value_pairs |-> "kv"])
    /\ UNCHANGED <<rec, orch, CACHED_API_KEY, deployment, uploads, scoring>>

(* ---------------------------- orchestrator ---------------------------- *)
\* events the orchestrator can be invoked with (lines 18-28): a claim_id; a
\* stream event whose first record is an INSERT, or another event name; a
\* 'Records' event from which reading the record raises (an empty list, a
\* record without eventName, an INSERT without Keys); neither
OrchEvents ==
    {"claim_id", "stream_insert", "stream_modify", "stream_malformed", "no_claim_id"}

EventHasClaimId(ev) == ev \in {"claim_id", "stream_insert"}

\* the payload of the medical invocation, lines 43-47: claim_id and the
\* item's extracted_text and key_value_pairs; no analysis_tier
medical_payload(claim_data) ==
    [analysis_tier |-> ABSENT,
     extracted_text |-> GetOr(claim_data.extracted_text, ""),
     key_value_pairs |-> GetOr(claim_data.key_value_pairs, "empty")]

\* the start of a run with the medical invocation made InvocationType
\* 'Event' (fire-and-forget): the run goes on to the risk stage at once
OrchStart_fire_and_forget(o) ==
    /\ orch[o].pc \in {"idle", "queued"}
    /\ orch[o].pc = "idle" => \A p \in Orchs : p < o => orch[p].pc # "idle"
    /\ \E ev \in OrchEvents, callsOk \in BOOLEAN :
        /\ orch[o].pc = "queued" => ev = "claim_id"
        /\ ~EventHasClaimId(ev) => callsOk
        /\ IF EventHasClaimId(ev) /\ callsOk /\ rec.exists
           THEN /\ MedicalBegin(o, medical_payload(rec))
                /\ orch' = [orch EXCEPT ![o].pc = "call_risk", ![o].claim_id = "resolved"]
           ELSE /\ orch' = [ReturnError(o, IF ev = "stream_malformed" THEN "500"
                                           ELSE IF ~EventHasClaimId(ev) THEN "400"
                                           ELSE IF ~callsOk THEN "500"
                                           ELSE "404")
                              EXCEPT ![o].claim_id = IF EventHasClaimId(ev)
                                                     THEN "resolved" ELSE "none"]
                /\ UNCHANGED med
    /\ UNCHANGED <<rec, CACHED_API_KEY, deployment, uploads, scoring>>

\* claim-orchestrator lambda_handler, lines 17-53: resolve claim_id (400 when
\* there is none), get_item (404 when there is no item, 500 through the
\* except when the call raises or when reading a stream record raised before),
\* then the synchronous invocation of
\* OpenAIMedicalExtractor (500 through the except when invoke raises).  The
\* item's status is not looked at.  The invocation is the delivery of a
\* queued event, or a direct one, which takes the first slot that ran nothing.
OrchStart(o) ==
    /\ orch[o].pc \in {"idle", "queued"}
    /\ orch[o].pc = "idle" => \A p \in Orchs : p < o => orch[p].pc # "idle"
    /\ \E ev \in OrchEvents, callsOk \in BOOLEAN :
        /\ orch[o].pc = "queued" => ev = "claim_id"
        /\ ~EventHasClaimId(ev) => callsOk
        /\ IF EventHasClaimId(ev) /\ callsOk /\ rec.exists
           THEN /\ MedicalBegin(o, medical_payload(rec))
                /\ orch' = [orch EXCEPT ![o].pc = "wait_medical", ![o].claim_id = "resolved"]
           ELSE /\ orch' = [ReturnError(o, IF ev = "stream_malformed" THEN "500"
                                           ELSE IF ~EventHasClaimId(ev) THEN "400"
                                           ELSE IF ~callsOk THEN "500"
                                           ELSE "404")
                              EXCEPT ![o].claim_id = IF EventHasClaimId(ev)
                                                     THEN "resolved" ELSE "none"]
                /\ UNCHANGED med
    /\ UNCHANGED <<rec, CACHED_API_KEY, deployment, uploads, scoring>>

(* -------------------------- risk-scoring stage ------------------------ *)
\* the attributes the risk stage sets for the item it read, lines 192-222
RiskWrite(item) ==
    [risk_analysis |-> [basis |-> item.medical_entities, timestamp |-> "set"],
     status |-> "SCORING_COMPLETE", final_score |-> "score"]

\* claim-orchestrator lines 58-74 with the risk-scorer module: after the
\* sleep, the synchronous invocation of RiskScorer.  An invoke that raises
\* ends the run with 500.  A module that failed to load makes the invocation
\* a function error, whose payload has no statusCode.  Otherwise the handler
\* (lines 15-238) reads the item (404 without one), scores it, writes
\* risk_analysis, status and final_score and answers 200; a store call that
\* raises makes it answer 500.
OrchInvokeRisk(o) ==
    /\ orch[o].pc = "call_risk"
    /\ \E invokeOk \in BOOLEAN, storeOk \in BOOLEAN :
        /\ (~invokeOk \/ scorer_module = "NameError") => storeOk
        /\ IF ~invokeOk
           THEN /\ orch' = ReturnError(o, "500")
                /\ UNCHANGED rec
           ELSE IF scorer_module = "NameError"
           THEN /\ orch' = [orch EXCEPT ![o].pc = "final", ![o].risk_result = "None"]
                /\ UNCHANGED rec
           ELSE IF ~storeOk
           THEN /\ orch' = [orch EXCEPT ![o].pc = "final", ![o].risk_result = "500"]
                /\ UNCHANGED rec
           ELSE IF ~rec.exists
           THEN /\ orch' = [orch EXCEPT ![o].pc = "final", ![o].risk_result = "404"]
                /\ UNCHANGED rec
           ELSE /\ orch' = [orch EXCEPT ![o].pc = "final", ![o].risk_result = "200"]
                /\ rec' = update_item(rec, RiskWrite(rec))
    /\ UNCHANGED <<med, CACHED_API_KEY, deployment,
                   uploads, scoring>>

\* the attributes the orchestrator sets at the end of a run, lines 77-84
FinalWrite == [processing_complete |-> "true", completed_at |-> "set"]

\* claim-orchestrator lambda_handler, lines 76-106: the final update_item
\* and the 200 response, or 500 through the except when the update raised;
\* neither medical_result nor risk_result is looked at before the update
OrchFinal(o) ==
    /\ orch[o].pc = "final"
    /\ \E storeOk \in BOOLEAN :
        IF storeOk
        THEN /\ rec' = update_item(rec, FinalWrite)
             /\ orch' = ReturnComplete(o)
        ELSE /\ orch' = ReturnError(o, "500")
             /\ UNCHANGED rec
    /\ UNCHANGED <<med, CACHED_API_KEY, deployment,
                   uploads, scoring>>

(* ------------------- risk scorer: the scoring rules -------------------- *)
\* scoring invocations on one claim in one behaviour
MaxScorings == 2
\* the latest time datetime.now() can give
MaxClock == 1

\* A claim as the scorer reads it (lines 25-27).  A string is "" when it is
\* empty or the key is missing; a list is given by its length.
required_fields == <<"patient_name", "date_of_service", "diagnosis", "procedure">>

patient_keys == <<"name", "id", "age", "gender">>

\* the required fields present in key_value_pairs, as sets of field names
KvSamples ==
    {{}, {"patient_name"}, {"date_of_service", "diagnosis", "procedure"},
     {"patient_name", "date_of_service", "diagnosis", "procedure"}}

\* the sub-fields present in medical_entities.patient
PatientSamples ==
    {{}, {"name"}, {"id", "age"}, {"name", "id"}, {"name", "id", "age", "gender"}}

\* values of key_value_pairs.total_charge and medical_entities.claim_amount
ChargeStrings ==
    {"", "abc", "1500", "$2,001", "5000", "5,001.00", "10000", "$10,001.00"}

AmountStrings == {"", "12000"}

ProcedureCounts == {0, 2, 3, 4, 5, 6}
DiagnosisCounts == {0, 1, 3, 5}
ConditionCounts == {0, 1, 2}

\* patient_null: medical_entities holds the key patient with the value None
\* (a JSON null of the language-model reply, stored as NULL)
Claims ==
    [kv_present : KvSamples, total_charge : ChargeStrings,
     patient : PatientSamples, patient_null : {FALSE},
     procedure_codes : ProcedureCounts,
     diagnosis_codes : DiagnosisCounts, conditions : ConditionCounts,
     medications : {1}, claim_amount : AmountStrings]
    \cup
    [kv_present : KvSamples, total_charge : ChargeStrings,
     patient : {{}}, patient_null : {TRUE},
     procedure_codes : ProcedureCounts,
     diagnosis_codes : DiagnosisCounts, conditions : ConditionCounts,
     medications : {1}, claim_amount : AmountStrings]

\* line 55: float(str(x).replace('$', '').replace(',', '') or '0'), with 0
\* for a text float() rejects (lines 56-57)
ParseAmount(str) ==
    CASE str = "" -> 0
      [] str = "abc" -> 0
      [] str = "1500" -> 1500
      [] str = "$2,001" -> 2001
      [] str = "5000" -> 5000
      [] str = "5,001.00" -> 5001
      [] str = "10000" -> 10000
      [] str = "$10,001.00" -> 10001
      [] str = "12000" -> 12000

\* lines 53-57: total_charge when it is non-empty, else the claim_amount of
\* medical_entities
claim_amount(claim) ==
    ParseAmount(IF claim.total_charge # "" THEN claim.total_charge
                ELSE claim.claim_amount)

Entry(category, points, flag) ==
    <<[category |-> category, points |-> points, flag |-> flag]>>

\* Rule 1, lines 35-50: a required field counts as missing when
\* key_value_pairs has no value for it and medical_entities.patient has no
\* name; 4 points for each
missing_fields(claim) ==
    SelectSeq(required_fields,
              LAMBDA field : field \notin claim.kv_present /\ "name" \notin claim.patient)

Rule1(claim) ==
    IF missing_fields(claim) # <<>>
    THEN Entry("Missing Information", Len(missing_fields(claim)) * 4, "INCOMPLETE_DATA")
    ELSE <<>>

\* Rule 2 with three separate if statements in place of if / elif / elif
Rule2_separate_ifs(claim) ==
    (IF claim_amount(claim) > 10000 THEN Entry("High Claim Amount", 25, "HIGH_AMOUNT") ELSE <<>>)
    \o (IF claim_amount(claim) > 5000 THEN Entry("Elevated Claim Amount", 15, "ELEVATED_AMOUNT") ELSE <<>>)
    \o (IF claim_amount(claim) > 2000 THEN Entry("Above Average Amount", 8, "none") ELSE <<>>)

\* Rule 2, lines 59-84
Rule2(claim) ==
    IF claim_amount(claim) > 10000 THEN Entry("High Claim Amount", 25, "HIGH_AMOUNT")
    ELSE IF claim_amount(claim) > 5000 THEN Entry("Elevated Claim Amount", 15, "ELEVATED_AMOUNT")
    ELSE IF claim_amount(claim) > 2000 THEN Entry("Above Average Amount", 8, "none")
    ELSE <<>>

\* Rule 3, lines 87-104
Rule3(claim) ==
    IF claim.procedure_codes > 5 THEN Entry("Multiple Procedures", 20, "MULTIPLE_PROCEDURES")
    ELSE IF claim.procedure_codes > 3 THEN Entry("Several Procedures", 10, "none")
    ELSE <<>>

\* lines 107-109
total_diagnoses(claim) == claim.diagnosis_codes + claim.conditions

\* Rule 4, lines 111-127
Rule4(claim) ==
    IF total_diagnoses(claim) > 4 THEN Entry("Multiple Diagnoses", 15, "COMPLEX_CASE")
    ELSE IF total_diagnoses(claim) > 2 THEN Entry("Several Diagnoses", 8, "none")
    ELSE <<>>

\* lines 130-132
missing_patient_fields(claim) ==
    Len(SelectSeq(patient_keys, LAMBDA k : k \notin claim.patient))

\* Rule 5, lines 134-150
Rule5(claim) ==
    IF missing_patient_fields(claim) > 2
    THEN Entry("Incomplete Patient Data", 15, "INCOMPLETE_PATIENT_INFO")
    ELSE IF missing_patient_fields(claim) > 0
    THEN Entry("Some Patient Data Missing", 7, "none")
    ELSE <<>>

\* Rule 6 with `or` in place of `and`: no diagnosis codes or no conditions
Rule6_either_empty(claim) ==
    IF claim.diagnosis_codes = 0 \/ claim.conditions = 0
    THEN Entry("Missing Diagnosis", 10, "NO_DIAGNOSIS")
    ELSE <<>>

\* Rule 6, lines 153-161: neither diagnosis codes nor conditions
Rule6(claim) ==
    IF claim.diagnosis_codes = 0 /\ claim.conditions = 0
    THEN Entry("Missing Diagnosis", 10, "NO_DIAGNOSIS")
    ELSE <<>>

\* Rule 7, lines 164-172
Rule7(claim) ==
    IF claim.procedure_codes = 0
    THEN Entry("Missing Procedures", 10, "NO_PROCEDURES")
    ELSE <<>>

\* the entries appended to risk_breakdown, in the order of the rules
risk_breakdown(claim) ==
    Rule1(claim) \o Rule2(claim) \o Rule3(claim) \o Rule4(claim)
        \o Rule5(claim) \o Rule6(claim) \o Rule7(claim)

RECURSIVE SumPoints(_)
SumPoints(entries) ==
    IF entries = <<>> THEN 0 ELSE Head(entries).points + SumPoints(Tail(entries))

risk_score(claim) == SumPoints(risk_breakdown(claim))

RECURSIVE FlagsOf(_)
FlagsOf(entries) ==
    IF entries = <<>> THEN <<>>
    ELSE (IF Head(entries).flag = "none" THEN <<>> ELSE <<Head(entries).flag>>)
             \o FlagsOf(Tail(entries))

flags(claim) == FlagsOf(risk_breakdown(claim))

\* the level chosen with < in place of <= at both limits
risk_level_strict_limits(score) ==
    IF score < 20 THEN [level |-> "LOW", action |-> "AUTO_APPROVE", color |-> "green"]
    ELSE IF score < 50 THEN [level |-> "MEDIUM", action |-> "MANUAL_REVIEW", color |-> "yellow"]
    ELSE [level |-> "HIGH", action |-> "DETAILED_INVESTIGATION", color |-> "red"]

\* lines 175-186
risk_level(score) ==
    IF score <= 20 THEN [level |-> "LOW", action |-> "AUTO_APPROVE", color |-> "green"]
    ELSE IF score <= 50 THEN [level |-> "MEDIUM", action |-> "MANUAL_REVIEW", color |-> "yellow"]
    ELSE [level |-> "HIGH", action |-> "DETAILED_INVESTIGATION", color |-> "red"]

\* lines 189-210: the risk_analysis value built for a claim at time now
risk_analysis(claim, now) ==
    [risk_score |-> risk_score(claim),
     risk_level |-> risk_level(risk_score(claim)).level,
     recommended_action |-> risk_level(risk_score(claim)).action,
     confidence_score |-> 100 - risk_score(claim),
     color_indicator |-> risk_level(risk_score(claim)).color,
     flags |-> flags(claim),
     risk_breakdown |-> risk_breakdown(claim),
     statistics |-> [total_diagnoses |-> total_diagnoses(claim),
                     total_procedures |-> claim.procedure_codes,
                     total_medications |-> claim.medications,
                     claim_amount |-> claim_amount(claim)],
     timestamp |-> now,
     processing_method |-> "rule_based_scoring_v1"]

\* lines 130-131: medical_entities.get('patient', {}) is None when the key
\* is stored with a null, and None.get('name') raises AttributeError
RaisesOnPatient(claim) == claim.patient_null

\* risk-scorer lambda_handler, lines 15-238, invoked on the claim at some
\* time not before the previous invocation: the risk_analysis it stores and
\* the statusCode it returns; an exception stores nothing and returns 500
RiskScorer ==
    /\ Len(scoring.results) < MaxScorings
    /\ \E now \in 0..MaxClock :
        /\ \A i \in 1..Len(scoring.results) : scoring.results[i].timestamp <= now
        /\ scoring' = IF RaisesOnPatient(scoring.claim)
                      THEN [scoring EXCEPT !.statusCode = "500"]
                      ELSE [scoring EXCEPT
                               !.results = Append(@, risk_analysis(scoring.claim, now)),
                               !.statusCode = "200"]
    /\ UNCHANGED <<rec, orch, med, CACHED_API_KEY, deployment, uploads>>

\* the scorer on its own: a loaded module and any claim of the samples
RiskInit ==
    /\ rec = NoItem
    /\ orch = [o \in Orchs |-> IdleOrch]
    /\ med = [c \in Callers |-> IdleMed]
    /\ CACHED_API_KEY = FALSE
    /\ GPU_SERVICE_URL = FALSE
    /\ gpu_service = "any"
    /\ scorer_module = "loaded"
    /\ pdf_extractor = "package"
    /\ uploads = 0
    /\ scoring \in [claim : Claims, results : {<<>>}, statusCode : {"none"}]

RiskNext == RiskScorer

SpecRisk == RiskInit /\ [][RiskNext]_vars

(* ------------- the pipeline with the repository's deep-model service --- *)
\* the deployment whose GPU_SERVICE_URL is the endpoint of gpu-service/app.py
GpuInit ==
    /\ rec = NoItem
    /\ orch = [o \in Orchs |-> IdleOrch]
    /\ med = [c \in Callers |-> IdleMed]
    /\ CACHED_API_KEY = FALSE
    /\ GPU_SERVICE_URL = TRUE
    /\ gpu_service = "gpu-service"
    /\ scorer_module \in ScorerModuleOutcomes
    /\ pdf_extractor \in PdfExtractors
    /\ uploads = 0
    /\ scoring = NoScoring

(* --------------------------- specification ---------------------------- *)
Next ==
    \/ UploadTrigger
    \/ UploadTriggerPackage
    \/ DirectMedical
    \/ \E c \in Callers : MedicalReturn(c)
    \/ \E o \in Orchs : OrchStart(o)
    \/ \E o \in Orchs : OrchInvokeRisk(o)
    \/ \E o \in Orchs : OrchFinal(o)

Spec == Init /\ [][Next]_vars

SpecGpu == GpuInit /\ [][Next]_vars

\* Every call returns: an orchestrator invocation accepted by the
\* asynchronous invoke is delivered, a stage invoked synchronously answers,
\* and a handler that can take its next statement takes it.
Fairness ==
    \A o \in Orchs :
        /\ WF_vars(orch[o].pc = "queued" /\ OrchStart(o))
        /\ WF_vars(MedicalReturn(o))
        /\ WF_vars(OrchInvokeRisk(o))
        /\ WF_vars(OrchFinal(o))

\* the deployment in which the stages can all succeed: the risk scorer's
\* module loaded, the medical stage without a deep-model endpoint
FairInit ==
    /\ rec = NoItem
    /\ orch = [o \in Orchs |-> IdleOrch]
    /\ med = [c \in Callers |-> IdleMed]
    /\ CACHED_API_KEY = FALSE
    /\ GPU_SERVICE_URL = FALSE
    /\ gpu_service = "any"
    /\ scorer_module = "loaded"
    /\ pdf_extractor \in PdfExtractors
    /\ uploads = 0
    /\ scoring = NoScoring

SpecFair == FairInit /\ [][Next]_vars /\ Fairness

(* ------------------- the orchestrator and the record ------------------ *)
\* a step in which a stage invoked by some caller wrote to the record: the
\* medical stage returning, or the risk stage answering the orchestrator
MedicalStageWrites(c) ==
    med[c].phase = "running" /\ med'[c].phase = "returned" /\ rec' # rec

RiskStageWrites(o) ==
    orch[o].pc = "call_risk" /\ orch'[o].pc = "final" /\ rec' # rec

\* C1: an orchestrator invocation that starts on a claim whose status is
\* SCORING_COMPLETE is a no-op: it does not invoke the medical-extraction
\* stage (the first thing a run does after reading the record).
C1_NoOpAtScoringComplete ==
    [][\A o \in Orchs :
        (rec.status = "SCORING_COMPLETE" /\ orch[o].pc \in {"idle", "queued"})
            => orch'[o].pc # "wait_medical"]_vars

\* C2: no write replaces the status by an earlier one of the order UPLOADED,
\* TEXT_EXTRACTED, MEDICAL_ANALYSIS_COMPLETE, SCORING_COMPLETE, and no stage
\* writes to the record once processing_complete is true.
C2_StatusForwardOnly ==
    [][/\ Rank(rec'.status) >= Rank(rec.status)
       /\ rec.processing_complete = "true" =>
            /\ \A c \in Callers : ~MedicalStageWrites(c)
            /\ \A o \in Orchs : ~RiskStageWrites(o)]_vars

\* C3: in every reachable state, processing_complete = true implies that the
\* record has status SCORING_COMPLETE and a risk_analysis.
C3_CompleteOnlyAfterScoring ==
    rec.processing_complete = "true" =>
        rec.status = "SCORING_COMPLETE" /\ rec.risk_analysis # NoRisk

\* C4: a run gets to its final update only when both stages answered 200,
\* and a run that answers 200 reports both stages as succeeded: a stage
\* that answered anything else ended the run with a failure result.
C4_StageFailureStopsRun ==
    \A o \in Orchs :
        /\ orch[o].pc = "final" =>
              orch[o].medical_result = "200" /\ orch[o].risk_result = "200"
        /\ (orch[o].pc = "done" /\ orch[o].response.statusCode = "200") =>
              orch[o].response.medical_extraction /\ orch[o].response.risk_scoring

\* C5: the medical stage of an orchestrator run commits its output only when
\* that output is not committed yet, i.e. the status is before
\* MEDICAL_ANALYSIS_COMPLETE; a committed result is never written over.
C5_StageCommitsOnce ==
    [][\A o \in Orchs :
        MedicalStageWrites(o) =>
            Rank(rec.status) < Rank("MEDICAL_ANALYSIS_COMPLETE")]_vars

(* ----------------------- the medical-extraction stage ----------------- *)
\* C6: a medical-extraction invocation that answers its orchestrator 200
\* has written a medical_entities value with all eight canonical keys and
\* the status MEDICAL_ANALYSIS_COMPLETE, whatever the services answered.
C6_AlwaysCanonicalShape ==
    [][\A o \in Orchs :
        (orch[o].pc = "wait_medical" /\ orch'[o].medical_result = "200") =>
            /\ CanonicalKeys \subseteq rec'.medical_entities.keys
            /\ rec'.status = "MEDICAL_ANALYSIS_COMPLETE"]_vars

\* the order of the calls of one invocation: the deep-model service, the
\* credential store, the language model, the rules
StrategyOrder == <<"gpu", "secretsmanager", "openai", "rules">>

\* the tag each strategy puts on its output
TagOf(origin) ==
    CASE origin = "gpu" -> "gpu_enhanced"
      [] origin = "llm" -> "openai"
      [] origin = "rules" -> "rule_based"
      [] OTHER -> ABSENT

\* C7: whatever the services answer to a running invocation, its calls are
\* made in the order deep-model, credential store, language model, rules,
\* none twice; the deep-model service is called exactly for tier pro with the
\* service configured; the language model is called only after the deep-model
\* service failed or was skipped and a credential was obtained; the rules run
\* only after the language model failed or was skipped; and the tag of the
\* data names the strategy that produced it, in the invocation and in the
\* record.
C7_FixedStrategyOrder ==
    /\ \A c \in Callers : med[c].phase = "running" =>
        \A cached \in BOOLEAN, gpu \in GpuOutcomes, secret \in SecretOutcomes,
           llm \in LlmOutcomes :
            LET tier == GetOr(med[c].event.analysis_tier, "standard")
                r == Extraction(c, cached, gpu, secret, llm)
                Made(calls) == {calls[i] : i \in 1..Len(calls)}
                Position(call) ==
                    CHOOSE i \in 1..Len(StrategyOrder) : StrategyOrder[i] = call
                \* all calls are of StrategyOrder, each later in it than the
                \* one before (so none is made twice)
                InStrategyOrder(calls) ==
                    /\ Made(calls) \subseteq Made(StrategyOrder)
                    /\ \A i, j \in 1..Len(calls) :
                          i < j => Position(calls[i]) < Position(calls[j])
                made == Made(r.calls)
                gpuTried == tier = "pro" /\ GPU_SERVICE_URL
                haveKey == cached \/ secret = "ok"
                last == r.calls[Len(r.calls)]
            IN  /\ InStrategyOrder(r.calls)
                /\ r.calls # <<>>
                /\ "gpu" \in made <=> gpuTried
                /\ made \cap {"secretsmanager", "openai", "rules"} # {} =>
                      ~(gpuTried /\ gpu = "ok")
                /\ "secretsmanager" \in made => ~cached
                /\ "openai" \in made => haveKey
                /\ "rules" \in made =>
                      ~haveKey \/ llm \notin {"canonical_json", "partial_object"}
                /\ r.data.origin = (CASE last = "gpu" -> "gpu"
                                      [] last = "openai" -> "llm"
                                      [] OTHER -> "rules")
                /\ r.data.extraction_method = TagOf(r.data.origin)
    /\ rec.medical_entities.extraction_method = TagOf(rec.medical_entities.origin)

\* a pro-tier invocation with the deep-model service configured went through
\* the whole chain and the output of the rules was stored
C7_Witness ==
    /\ GPU_SERVICE_URL
    /\ rec.analysis_tier = "pro"
    /\ rec.medical_entities.origin = "rules"
    /\ rec.medical_entities.extraction_method = "rule_based"

\* C8: when the orchestrator's medical stage commits for a claim whose
\* analysis_tier is pro, with the deep-model service configured, the stage
\* ran with tier pro (so the deep-model service was attempted first) and the
\* analysis_tier of the record is still pro.
C8_ProTierThroughOrchestrator ==
    [][\A o \in Orchs :
        (rec.analysis_tier = "pro" /\ GPU_SERVICE_URL /\ MedicalStageWrites(o)) =>
            /\ GetOr(med[o].event.analysis_tier, "standard") = "pro"
            /\ rec'.analysis_tier = "pro"]_vars

\* C9: for a pro-tier claim with the deep-model service configured whose
\* medical stage stored data of the language model (the deep-model service
\* having failed), the tag stored is the language-model tag, not
\* gpu_enhanced, and an orchestrator run that answers 200 for that claim
\* leaves it at SCORING_COMPLETE.
C9_LlmFallbackReachesScoring ==
    [][/\ \A c \in Callers :
            (/\ MedicalStageWrites(c)
             /\ GPU_SERVICE_URL
             /\ rec'.analysis_tier = "pro"
             /\ rec'.medical_entities.origin = "llm") =>
                rec'.medical_entities.extraction_method = "openai"
       /\ \A o \in Orchs :
            (/\ orch[o].pc = "final"
             /\ orch'[o].pc = "done"
             /\ orch'[o].response.statusCode = "200"
             /\ GPU_SERVICE_URL
             /\ rec'.analysis_tier = "pro"
             /\ rec'.medical_entities.origin = "llm") =>
                rec'.status = "SCORING_COMPLETE"]_vars

\* C10: a medical_entities value stored under the language-model tag has
\* the canonical shape: a reply that is no JSON or lacks keys of the schema
\* is never stored as a language-model result.
C10_InvalidLlmReplyIsFailure ==
    rec.medical_entities.extraction_method = "openai" =>
        CanonicalKeys \subseteq rec.medical_entities.keys

(* ------------------- order and isolation of the stages ---------------- *)
\* C11: a run gets to the risk-stage invocation only from waiting for its
\* own medical invocation, which has returned by then; it gets to the final
\* update only from the risk-stage invocation, which has answered by then;
\* and processing_complete becomes true only in a step of a run that is at
\* its final update with both stage results in hand.
C11_StagesInSequence ==
    [][/\ \A o \in Orchs :
            /\ (orch'[o].pc = "call_risk" /\ orch[o].pc # "call_risk") =>
                  /\ orch[o].pc = "wait_medical"
                  /\ med'[o].phase = "returned"
                  /\ orch'[o].medical_result # "unset"
            /\ (orch'[o].pc = "final" /\ orch[o].pc # "final") =>
                  /\ orch[o].pc = "call_risk"
                  /\ med[o].phase = "returned"
                  /\ orch'[o].risk_result # "unset"
       /\ (rec.processing_complete # "true" /\ rec'.processing_complete = "true") =>
            \E o \in Orchs :
                /\ orch[o].pc = "final" /\ orch'[o].pc = "done"
                /\ orch[o].medical_result # "unset"
                /\ orch[o].risk_result # "unset"]_vars

\* a run went through both stages and its final update and answered 200
C11_Witness ==
    \E o \in Orchs :
        /\ orch[o].pc = "done"
        /\ orch[o].response.statusCode = "200"
        /\ med[o].phase = "returned"
        /\ rec.processing_complete = "true"

\* C12: when a run invokes the medical stage, the record has status
\* TEXT_EXTRACTED or later, and the extracted_text and key_value_pairs of
\* the event are the ones text extraction wrote.
C12_MedicalAfterTextExtraction ==
    [][\A o \in Orchs :
        (orch[o].pc \in {"idle", "queued"} /\ orch'[o].pc = "wait_medical") =>
            /\ Rank(rec.status) >= Rank("TEXT_EXTRACTED")
            /\ med'[o].event.extracted_text = "text"
            /\ med'[o].event.key_value_pairs = "kv"]_vars

\* C13: a repeated delivery of the upload notification for a key (one
\* after the first) leaves the record as it is.
C13_RecordCreatedOnce ==
    [][(uploads > 0 /\ uploads' > uploads) => rec' = rec]_vars

\* C14: medical_entities gets a value only in a step in which a medical
\* invocation returns, with 200 where the answer is observed (the
\* orchestrator's), and risk_analysis only in a step in which a risk
\* invocation answers 200; a stage invocation that answers anything else
\* leaves the record as it was.
C14_FieldsOnlyAfterSuccess ==
    [][/\ (rec'.medical_entities # rec.medical_entities /\ rec'.medical_entities # NoData) =>
            \E c \in Callers :
                /\ med[c].phase = "running" /\ med'[c].phase = "returned"
                /\ c \in Orchs => orch'[c].medical_result = "200"
       /\ (rec'.risk_analysis # rec.risk_analysis /\ rec'.risk_analysis # NoRisk) =>
            \E o \in Orchs :
                /\ orch[o].pc = "call_risk" /\ orch'[o].pc = "final"
                /\ orch'[o].risk_result = "200"
       /\ \A o \in Orchs :
            /\ (orch[o].pc = "wait_medical" /\ orch'[o].pc = "call_risk"
                  /\ orch'[o].medical_result # "200") => rec' = rec
            /\ (orch[o].pc = "call_risk" /\ orch'[o].pc # "call_risk"
                  /\ orch'[o].risk_result # "200") => rec' = rec]_vars

\* the medical stage of a run answered 500 and the record holds no
\* medical_entities; the risk stage then answered something else than 200
\* and the record holds no risk_analysis
C14_Witness ==
    \E o \in Orchs :
        /\ orch[o].pc = "final"
        /\ orch[o].medical_result = "500"
        /\ orch[o].risk_result # "200"
        /\ rec.exists
        /\ rec.medical_entities = NoData
        /\ rec.risk_analysis = NoRisk

\* C15: an orchestrator invocation that starts while no record exists
\* returns at once, invoking no stage and writing nothing, and with a
\* claim_id resolved from its event its result is 404 (500 when the read
\* itself raised); an invocation from whose event no claim_id is resolved
\* returns 400, with no stage invoked and nothing written.
C15_NotFoundAndValidation ==
    [][\A o \in Orchs :
        (orch[o].pc \in {"idle", "queued"} /\ orch'[o].pc \in {"wait_medical", "done"}) =>
            /\ ~rec.exists =>
                  /\ orch'[o].pc = "done"
                  /\ rec' = rec /\ med' = med
            /\ (~rec.exists /\ orch'[o].claim_id = "resolved") =>
                  orch'[o].response.statusCode \in {"404", "500"}
            /\ orch'[o].claim_id = "none" =>
                  /\ orch'[o].pc = "done"
                  /\ orch'[o].response.statusCode = "400"
                  /\ rec' = rec /\ med' = med]_vars

\* C16: no two stage executions of the claim overlap: at no time are the
\* medical stages of two orchestrator runs both running.
C16_NoOverlappingStages ==
    \A o1, o2 \in Orchs :
        (med[o1].phase = "running" /\ med[o2].phase = "running") => o1 = o2

(* --------------------------- the scoring rules ------------------------ *)
\* the entries of a stored risk_analysis under the given categories, the
\* points they add, and whether a flag is among its flags
EntriesOf(analysis, categories) ==
    SelectSeq(analysis.risk_breakdown, LAMBDA entry : entry.category \in categories)

PointsOf(analysis, categories) == SumPoints(EntriesOf(analysis, categories))

Flagged(analysis, flag) == \E i \in 1..Len(analysis.flags) : analysis.flags[i] = flag

\* C17: two scoring invocations on the same claim data store the same
\* risk_analysis, in every field.
C17_ScoringDeterministic ==
    \A i, j \in 1..Len(scoring.results) : scoring.results[i] = scoring.results[j]

C19_FourPointsPerMissingField ==
    \A i \in 1..Len(scoring.results) :
        LET r == scoring.results[i]
            claim == scoring.claim
            missing == {field \in {"patient_name", "date_of_service", "diagnosis", "procedure"} :
                           /\ field \notin claim.kv_present
                           /\ ~(field = "patient_name" /\ "name" \in claim.patient)}
        IN  /\ PointsOf(r, {"Missing Information"}) = 4 * Cardinality(missing)
            /\ Flagged(r, "INCOMPLETE_DATA") <=> missing # {}

\* C20: a stored risk_analysis of a claim without diagnosis codes has the
\* 10 points of the missing-diagnosis entry and the flag NO_DIAGNOSIS; one
\* of a claim without procedure codes has the 10 points of the
\* missing-procedures entry and the flag NO_PROCEDURES.
C20_NoCodesRules ==
    \A i \in 1..Len(scoring.results) :
        LET r == scoring.results[i]
            claim == scoring.claim
        IN  /\ claim.diagnosis_codes = 0 =>
                  /\ PointsOf(r, {"Missing Diagnosis"}) = 10
                  /\ Flagged(r, "NO_DIAGNOSIS")
            /\ claim.procedure_codes = 0 =>
                  /\ PointsOf(r, {"Missing Procedures"}) = 10
                  /\ Flagged(r, "NO_PROCEDURES")

C22_ScenarioHighRisk ==
    \A i \in 1..Len(scoring.results) :
        LET r == scoring.results[i]
            claim == scoring.claim
        IN  (/\ claim.procedure_codes = 6
             /\ claim.diagnosis_codes = 0
             /\ claim_amount(claim) = 12000
             /\ claim.patient = {"name", "id", "age", "gender"}
             /\ claim.kv_present = {"patient_name", "date_of_service", "diagnosis", "procedure"})
            => /\ r.risk_score = 55
               /\ r.risk_level = "HIGH"
               /\ r.recommended_action = "DETAILED_INVESTIGATION"
               /\ Flagged(r, "HIGH_AMOUNT")
               /\ Flagged(r, "MULTIPLE_PROCEDURES")
               /\ Flagged(r, "NO_DIAGNOSIS")

\* C23: a stored risk_analysis of a claim with every required field given,
\* the patient's name extracted, amount 1500, 2 procedure codes, 1 diagnosis
\* code and no further condition has score 0, level LOW and action
\* AUTO_APPROVE.
C23_ScenarioNoRisk ==
    \A i \in 1..Len(scoring.results) :
        LET r == scoring.results[i]
            claim == scoring.claim
        IN  (/\ claim.kv_present = {"patient_name", "date_of_service", "diagnosis", "procedure"}
             /\ claim_amount(claim) = 1500
             /\ "name" \in claim.patient
             /\ claim.procedure_codes = 2
             /\ claim.diagnosis_codes = 1
             /\ claim.conditions = 0)
            => /\ r.risk_score = 0
               /\ r.risk_level = "LOW"
               /\ r.recommended_action = "AUTO_APPROVE"

\* C24: whatever the claim record holds, a scoring invocation returns
\* success and has stored a risk_analysis.
C24_ScoringNeverFails ==
    scoring.statusCode # "none" =>
        /\ scoring.statusCode = "200"
        /\ Len(scoring.results) > 0

(* ------------------- medical extraction: the fallbacks ---------------- *)
\* C25: whenever the medical stage stores a result of the pattern-based
\* strategy for an invocation whose event carries key-value pairs, the
\* stored medical_entities has patient, provider and amount copied from them.
C25_RulesCopyKeyValuePairs ==
    [][\A c \in Callers :
          (/\ MedicalStageWrites(c)
           /\ rec'.medical_entities.origin = "rules"
           /\ med[c].event.key_value_pairs = "kv")
          => rec'.medical_entities.copied = "kv"]_vars

(* ------------------------------ failure ------------------------------- *)
\* C26: when a stage invoked by a run answers with a failure for a claim
\* that is in no terminal state, the claim's status is FAILED afterwards;
\* and no step changes the status of a FAILED claim.
C26_FailedIsAbsorbing ==
    [][/\ \A o \in Orchs :
             (/\ rec.exists
              /\ rec.status \notin {"SCORING_COMPLETE", "FAILED"}
              /\ \/ orch[o].medical_result # "500" /\ orch'[o].medical_result = "500"
                 \/ orch[o].risk_result # "500" /\ orch'[o].risk_result = "500")
             => rec'.status = "FAILED"
       /\ rec.status = "FAILED" => rec'.status = "FAILED"]_vars

(* ------------------------- frame of the writes ------------------------ *)
\* C27: the write of the medical stage leaves extracted_text,
\* key_value_pairs, risk_analysis, final_score and processing_complete as
\* they were; the write of the risk stage leaves extracted_text,
\* key_value_pairs, medical_entities, analysis_tier and processing_complete
\* as they were; the final update of a run changes nothing but
\* processing_complete and completed_at.
C27_WritesArePartialMerges ==
    [][/\ \A c \in Callers :
             MedicalStageWrites(c) =>
                 \A f \in {"extracted_text", "key_value_pairs", "risk_analysis",
                           "final_score", "processing_complete"} : rec'[f] = rec[f]
       /\ \A o \in Orchs :
             RiskStageWrites(o) =>
                 \A f \in {"extracted_text", "key_value_pairs", "medical_entities",
                           "analysis_tier", "processing_complete"} : rec'[f] = rec[f]
       /\ \A o \in Orchs :
             (orch[o].pc = "final" /\ orch'[o].pc = "done" /\ rec' # rec) =>
                 \A f \in DOMAIN rec \ {"processing_complete", "completed_at"} :
                     rec'[f] = rec[f]]_vars

\* a record that went through the three writes and still has what each of
\* them and the upload put there
C27_Witness ==
    /\ rec.processing_complete = "true"
    /\ rec.risk_analysis.timestamp = "set"
    /\ rec.medical_entities.origin # "none"
    /\ rec.extracted_text = "text"
    /\ rec.key_value_pairs = "kv"

(* ----------------------- the deep-model service ----------------------- *)
\* C28: with the repository's deep-model service, healthy, at the
\* configured endpoint, every pro-tier invocation of the medical stage that
\* stores a result stores one tagged gpu_enhanced.
C28_ProTierStoresGpuEnhanced ==
    [][\A c \in Callers :
          (/\ MedicalStageWrites(c)
           /\ med[c].event.analysis_tier = "pro")
          => rec'.medical_entities.extraction_method = "gpu_enhanced"]_vars

(* ------------------------- range of the score ------------------------- *)
\* C29: in every stored risk_analysis the score is between 0 and 100 and so
\* is the confidence; the missing-procedures entry never comes with an
\* entry of the procedure-count rule, nor the missing-diagnosis entry with
\* one of the diagnosis-count rule.
C29_ScoreWithinRange ==
    \A i \in 1..Len(scoring.results) :
        LET r == scoring.results[i]
        IN  /\ 0 <= r.risk_score /\ r.risk_score <= 100
            /\ 0 <= r.confidence_score /\ r.confidence_score <= 100
            /\ r.confidence_score = 100 - r.risk_score
            /\ ~(/\ EntriesOf(r, {"Missing Procedures"}) # <<>>
                 /\ EntriesOf(r, {"Multiple Procedures", "Several Procedures"}) # <<>>)
            /\ ~(/\ EntriesOf(r, {"Missing Diagnosis"}) # <<>>
                 /\ EntriesOf(r, {"Multiple Diagnoses", "Several Diagnoses"}) # <<>>)

\* the highest score there is, 91, from the five rules that can fire
\* together, was stored
C29_Witness ==
    /\ Len(scoring.results) > 0
    /\ scoring.results[1].risk_score = 91
    /\ Len(scoring.results[1].risk_breakdown) = 5

(* ------------------------- the cached credential ---------------------- *)
\* C30: in the container that keeps serving invocations a cached
\* credential stays cached, and with it get_openai_key gives the key
\* without calling the secret store; without it the secret store is called
\* once, a successful answer is cached and a failure leaves the cache
\* empty; the cache is filled only by a returning invocation of the medical
\* stage.
C30_CredentialFetchedOnce ==
    [][/\ CACHED_API_KEY => CACHED_API_KEY'
       /\ CACHED_API_KEY =>
             \A secret \in SecretOutcomes :
                 LET k == get_openai_key(CACHED_API_KEY, secret)
                 IN  k.key /\ k.cached /\ k.calls = <<>>
       /\ ~CACHED_API_KEY =>
             \A secret \in SecretOutcomes :
                 LET k == get_openai_key(CACHED_API_KEY, secret)
                 IN  /\ k.calls = <<"secretsmanager">>
                     /\ k.key <=> secret = "ok"
                     /\ k.cached <=> secret = "ok"
       /\ (~CACHED_API_KEY /\ CACHED_API_KEY') =>
             \E c \in Callers : med[c].phase = "running" /\ med'[c].phase = "returned"]_vars

\* the credential is cached and a further invocation of the medical stage
\* is running
C30_Witness ==
    /\ CACHED_API_KEY
    /\ \E c \in Callers : med[c].phase = "running"
    /\ \E c \in Callers : med[c].phase = "returned"

(* ----------------------------- termination ---------------------------- *)
\* a run that has returned reports a failure: a status other than 200, or
\* a stage that did not answer 200
FailedRun(o) ==
    /\ orch[o].pc = "done"
    /\ \/ orch[o].response.statusCode # "200"
       \/ orch[o].response.medical_extraction # TRUE
       \/ orch[o].response.risk_scoring # TRUE

\* every orchestrator invocation that was accepted or has started returns,
\* with one result of status 200, 400, 404 or 500 that stays as it is
RunsTerminate ==
    /\ \A o \in Orchs :
          (orch[o].pc \in {"queued", "wait_medical", "call_risk", "final"})
              ~> (orch[o].pc = "done")
    /\ [](\A o \in Orchs : orch[o].pc = "done" =>
              orch[o].response.statusCode \in {"200", "400", "404", "500"})
    /\ [][\A o \in Orchs : orch[o].pc = "done" => orch'[o] = orch[o]]_vars

\* once the upload notification is delivered no more, an upload whose
\* orchestrator invocation was accepted leads to a record with status
\* SCORING_COMPLETE and processing_complete true, unless a run reports a
\* failure
UploadedClaimCompletes ==
    \A o \in Orchs :
        (orch[o].pc = "queued" /\ uploads = MaxUploads)
            ~> \/ rec.status = "SCORING_COMPLETE" /\ rec.processing_complete = "true"
               \/ \E p \in Orchs : FailedRun(p)

\* C31: under fairness every orchestrator invocation returns with exactly
\* one result of status 200, 400, 404 or 500, and an uploaded claim whose
\* stages all succeed eventually has status SCORING_COMPLETE with
\* processing_complete true.
C31_RunsTerminateAndClaimsComplete ==
    RunsTerminate /\ UploadedClaimCompletes

=============================================================================
